---- MODULE Spec2Model ----
(***************************************************************************)
(* Operator scripts of the AgentOps platform, modelled as state machines.  *)
(*                                                                         *)
(*   SpecCleanup    cleanup-data.py: prompt, availability probe, the nine  *)
(*                  DELETE statements, summary                             *)
(*   SpecTransform  the per-row metric transformation of                   *)
(*                  upload-clean-data.py and direct-data-upload.py         *)
(*   SpecUpload     upload-clean-data.py: upload_metrics, file by file and *)
(*                  batch by batch                                         *)
(*   SpecRun        run_comprehensive_test of upload-clean-data.py and of  *)
(*                  direct-data-upload.py: upload, wait, verification      *)
(*   SpecTester     test-comprehensive.py: PlatformTester's run, from the  *)
(*                  loading of the sheets to the report                    *)
(*   SpecHelper     upload-helper.py: the command line, process_excel_file *)
(*                  and the exit status                                    *)
(*   SpecSql        upload-test-data.py: generate_sql_inserts, run twice   *)
(*                  on the same sheets                                     *)
(*   SpecDedup      the three duplicate checks on alerts, of               *)
(*                  test-comprehensive.py and upload-test-data.py, applied *)
(*                  to one list of alerts                                  *)
(*                                                                         *)
(* The platform behind the HTTP endpoints is external: each request's      *)
(* outcome (a status code, or a raised exception) is chosen freely.        *)
(***************************************************************************)
EXTENDS Integers, Sequences, FiniteSets, TLC

VARIABLES
    \* ---- cleanup-data.py
    pc,             \* position in the script
    confirmation,   \* the operator's answer, a sequence of characters
    http,           \* the requests sent so far, in order, with their outcome
    op,             \* index of the next entry of cleanup_operations
    success_count,  \* cleanup_data's counter
    summary,        \* what the "Cleanup Summary" block printed
    success,        \* cleanup_data's return value ("none" before it returns)
    \* ---- the per-row metric transformation
    row,            \* the spreadsheet row being transformed
    metric,         \* the record built from it, or the exception it raised
    \* ---- upload-clean-data.py, upload_metrics
    file_idx,       \* index of the next entry of metrics_files
    df,             \* the sheet read from the current file
    i,              \* start of the next batch (0-based row offset)
    total_metrics,  \* upload_metrics' counter
    posts,          \* the POSTs to /api/metrics made for the current file
    ended,          \* how the current file's processing ended
    returned,       \* upload_metrics' return value (-1 before it returns)
    acked_before,   \* rows acknowledged in the files before the current one
    rows_read,      \* rows read from all files so far
    sheets_read,    \* files read so far
    \* ---- run_comprehensive_test of upload-clean-data.py and of
    \*      direct-data-upload.py
    script,         \* which of the two scripts is running
    servers,        \* upload_servers: len(servers), the records built
    server_idx,     \* upload_servers: servers posted so far
    server_acked,   \* some POST to /api/servers was answered 200 or 201
    servers_count,  \* what upload_servers returned (-1 before)
    metrics_count,  \* what the metric upload returned (-1 before)
    slept,          \* the time.sleep calls made, in order, in seconds
    verified,       \* the paths requested by the verification, in order
    response,       \* outcome of the last verification request
    \* ---- direct-data-upload.py, upload_metrics_data
    conn,           \* the connection object: "none", "open" or "closed"
    open_connections, \* database connections currently open
    server_ids,     \* len(server_ids)
    server_id,      \* index into server_ids used by the last row
    inserted_count, \* upload_metrics_data's counter
    uncommitted,    \* rows inserted since the last commit
    commits,        \* conn.commit() calls so far
    \* ---- test-comprehensive.py, PlatformTester
    test_results,   \* self.test_results: test name -> status
    loaded_data,    \* the keys of self.loaded_data
    logged,         \* the log_test calls made so far, in order
    item,           \* index of the next element of the list being looped over
    uploaded,       \* the dataType of each POST to /api/upload-csv, in order
    printed,        \* the summary generate_report printed
    report,         \* the summary written to test_report.json
    deviations,     \* steps of the run that met something else than success
    \* ---- upload-helper.py
    argv,           \* sys.argv[1:]
    stdout,         \* what was printed to standard output
    stderr,         \* what was printed to standard error
    exit_code,      \* the process's exit status (-1 while it runs)
    \* ---- upload-test-data.py, generate_sql_inserts
    servers_df,     \* the hostnames of the server sheet
    metrics_df,     \* the hostnames of the metric sheet
    alerts_df,      \* the (hostname, title) pairs of the alert sheet
    str_hash,       \* this process's hash() on the strings it hashes
    sql_file,       \* the identifiers in test_data_inserts.sql, in order
    first_sql_file, \* the identifiers the first run wrote
    runs,           \* runs of the script completed so far
    \* ---- the duplicate checks on alerts
    alerts,             \* the alerts checked, in order
    load_duplicates,    \* load_excel_data's count (-1 before the check)
    seen_duplicates,    \* test_alert_deduplication's count
    content_duplicates  \* validate_data_quality's count

cleanup_vars == <<confirmation, http, op, success_count, summary, success>>
transform_vars == <<row, metric>>
upload_vars == <<file_idx, df, i, total_metrics, posts, ended, returned,
                 acked_before, rows_read, sheets_read>>
run_vars == <<script, servers, server_idx, server_acked, servers_count,
              metrics_count, slept, verified, response>>
direct_vars == <<conn, open_connections, server_ids, server_id, inserted_count,
                 uncommitted, commits>>
tester_vars == <<test_results, loaded_data, logged, item, uploaded, printed,
                 report, deviations>>
helper_vars == <<argv, stdout, stderr, exit_code>>
sql_vars == <<servers_df, metrics_df, alerts_df, str_hash, sql_file, first_sql_file, runs>>
dedup_vars == <<alerts, load_duplicates, seen_duplicates, content_duplicates>>
later_vars == <<tester_vars, helper_vars, sql_vars, dedup_vars>>
\* What the scripts modelled first never touch.
other_vars == <<run_vars, direct_vars, later_vars>>
early_vars == <<cleanup_vars, transform_vars, upload_vars, run_vars, direct_vars>>
vars == <<pc, cleanup_vars, transform_vars, upload_vars, other_vars>>

\* The values these variables hold while their script is not running.
IdleRun ==
    /\ script = "none"
    /\ servers = 0
    /\ server_idx = 0
    /\ server_acked = FALSE
    /\ servers_count = -1
    /\ metrics_count = -1
    /\ slept = <<>>
    /\ verified = <<>>
    /\ response = "none"
IdleDirect ==
    /\ conn = "none"
    /\ open_connections = 0
    /\ server_ids = 0
    /\ server_id = -1
    /\ inserted_count = 0
    /\ uncommitted = 0
    /\ commits = 0
EmptyResults == [n \in {} |-> "PASS"]
NoReport ==
    [total |-> -1, passed |-> 0, failed |-> 0, warnings |-> 0, info |-> 0,
     success_rate |-> [num |-> 0, den |-> 1]]
NoPrint ==
    [total |-> -1, passed |-> 0, failed |-> 0, warnings |-> 0, info |-> 0,
     success_rate |-> 0]
IdleTester ==
    /\ test_results = EmptyResults
    /\ loaded_data = {}
    /\ logged = <<>>
    /\ item = 1
    /\ uploaded = <<>>
    /\ printed = NoPrint
    /\ report = NoReport
    /\ deviations = 0
IdleHelper ==
    /\ argv = <<>>
    /\ stdout = <<>>
    /\ stderr = <<>>
    /\ exit_code = -1
IdleSql ==
    /\ servers_df = <<>>
    /\ metrics_df = <<>>
    /\ alerts_df = <<>>
    /\ str_hash = <<>>
    /\ sql_file = <<>>
    /\ first_sql_file = <<>>
    /\ runs = 0
IdleDedup ==
    /\ alerts = <<>>
    /\ load_duplicates = -1
    /\ seen_duplicates = -1
    /\ content_duplicates = -1
IdleLater == IdleTester /\ IdleHelper /\ IdleSql /\ IdleDedup
IdleOther == IdleRun /\ IdleDirect /\ IdleLater

(***************************************************************************)
(* HTTP outcomes: a response with a status code, or an exception raised by *)
(* requests (timeout, connection refused).                                 *)
(***************************************************************************)
Response(code) == [raised |-> FALSE, status_code |-> code]
Raised == [raised |-> TRUE, status_code |-> 0]

\* cleanup-data.py tells 200 from every other code.
StatusCodes == {200, 500}
Outcomes == {Response(c) : c \in StatusCodes} \cup {Raised}

(***************************************************************************)
(* Spreadsheet cells and Python's numeric conversions.                     *)
(*                                                                         *)
(* A cell of a row is absent (the sheet has no such column), NaN (an empty *)
(* cell, NaT in a date column), a number, a timestamp or text.  Numbers    *)
(* are integers here: float() of an integer-valued cell is that value.     *)
(***************************************************************************)
Absent == [kind |-> "absent", val |-> 0]
NaN == [kind |-> "nan", val |-> 0]
Text == [kind |-> "text", val |-> 0]
Num(v) == [kind |-> "num", val |-> v]
Ts(t) == [kind |-> "ts", val |-> t]
\* The value of datetime.now(), later than every timestamp of a sheet.
Now == Ts(100000)

\* An exception raised while a value is computed (ValueError, TypeError,
\* AttributeError); it propagates through every operation applied to it.
Exc == [kind |-> "exc", val |-> 0]

\* row.get(key, default)
Get(r, key, default) == IF r[key].kind = "absent" THEN default ELSE r[key]

\* pd.notna(row.get(key)): None (absent) and NaN are not values
NotNa(r, key) == r[key].kind \notin {"absent", "nan"}

\* float(x): a number or NaN converts, text raises ValueError
Float(x) ==
    CASE x.kind = "num" -> x
      [] x.kind = "nan" -> x
      [] OTHER -> Exc

\* int(x): a number converts, NaN and text raise ValueError
Int_(x) ==
    CASE x.kind = "num" -> x
      [] OTHER -> Exc

\* a < b on floats: False whenever one side is NaN
Less(a, b) == a.kind = "num" /\ b.kind = "num" /\ a.val < b.val

\* min(a, b): b if b < a, else a
PyMin(a, b) ==
    IF a.kind = "exc" \/ b.kind = "exc" THEN Exc
    ELSE IF Less(b, a) THEN b ELSE a

\* max(a, b): b if b > a, else a
PyMax(a, b) ==
    IF a.kind = "exc" \/ b.kind = "exc" THEN Exc
    ELSE IF Less(a, b) THEN b ELSE a

\* A clamp that forgets the lower bound.
ClampUpperOnly(x) == PyMin(Num(100), x)

\* max(0, min(100, x))
Clamp(x) == PyMax(Num(0), PyMin(Num(100), x))

\* x.strftime('%Y-%m-%d %H:%M:%S'): defined on timestamps only; NaT raises
\* ValueError, a string or a float has no such method.  The text it returns
\* names the timestamp's second, kept here as that timestamp.
Strftime(x) == IF x.kind = "ts" THEN x ELSE Exc

NumericFields ==
    {"cpu_usage", "memory_usage", "disk_usage",
     "network_latency", "network_throughput", "process_count"}

\* The record, or RaisedMetric when computing any of its fields raised.
RaisedMetric == [raised |-> TRUE]
Build(fields) ==
    IF \E f \in DOMAIN fields : fields[f].kind = "exc"
    THEN RaisedMetric
    ELSE [raised |-> FALSE] @@ fields

\* upload-clean-data.py, the body of "for _, row in batch.iterrows()":
\* cpu and memory guarded by pd.notna, the other fields converted as read.
\* str() of the three percentages renders the number in decimal and is kept
\* as the number; id (a fresh uuid4) and the server_id text are left out.
CleanMetric(r) ==
    LET cpu == IF NotNa(r, "cpu_usage")
               THEN Float(Get(r, "cpu_usage", Num(0))) ELSE Num(0)
        mem == IF NotNa(r, "memory_usage")
               THEN Float(Get(r, "memory_usage", Num(0))) ELSE Num(0)
    IN Build(
        [cpu_usage          |-> Clamp(cpu),
         memory_usage       |-> Clamp(mem),
         memory_total       |-> Num(16384),
         disk_usage         |-> Clamp(Float(Get(r, "disk_usage", Num(50)))),
         disk_total         |-> Num(500),
         network_latency    |-> PyMax(Num(0), Float(Get(r, "network_latency", Num(10)))),
         network_throughput |-> PyMax(Num(0), Float(Get(r, "network_throughput", Num(100)))),
         process_count      |-> PyMax(Num(0), Int_(Get(r, "process_count", Num(50)))),
         timestamp          |-> Strftime(Get(r, "timestamp", Now))])

\* direct-data-upload.py, the try body of "for i, row in df.iterrows()" up
\* to the INSERT's parameters: the three percentages guarded by pd.notna,
\* the network fields and the process count derived from the row index.
DirectMetric(r, idx) ==
    LET cpu  == IF NotNa(r, "cpu_usage")
                THEN Float(Get(r, "cpu_usage", Num(0))) ELSE Num(0)
        mem  == IF NotNa(r, "memory_usage")
                THEN Float(Get(r, "memory_usage", Num(0))) ELSE Num(0)
        disk == IF NotNa(r, "disk_usage")
                THEN Float(Get(r, "disk_usage", Num(50))) ELSE Num(50)
    IN Build(
        [cpu_usage          |-> Clamp(cpu),
         memory_usage       |-> Clamp(mem),
         memory_total       |-> Num(16384),
         disk_usage         |-> Clamp(disk),
         disk_total         |-> Num(500),
         network_latency    |-> Num(10 + (idx % 50)),
         network_throughput |-> Num(100 + (idx % 200)),
         process_count      |-> Num(50 + (idx % 100)),
         timestamp          |-> Ts(Now.val - idx * 5)])

NoRow ==
    [cpu_usage |-> Absent, memory_usage |-> Absent, disk_usage |-> Absent,
     network_latency |-> Absent, network_throughput |-> Absent,
     process_count |-> Absent, timestamp |-> Absent]
NoMetric == [raised |-> FALSE, script |-> "none"]
NoSheet == [len |-> 0, bad |-> 0]


(***************************************************************************)
(* cleanup-data.py                                                         *)
(***************************************************************************)

\* str.lower() on the characters an answer is made of.
UpperCase == <<"A","B","C","D","E","F","G","H","I","J","K","L","M",
               "N","O","P","Q","R","S","T","U","V","W","X","Y","Z">>
LowerCase == <<"a","b","c","d","e","f","g","h","i","j","k","l","m",
               "n","o","p","q","r","s","t","u","v","w","x","y","z">>
LowerChar(c) ==
    IF \E k \in 1..26 : UpperCase[k] = c
    THEN LowerCase[CHOOSE k \in 1..26 : UpperCase[k] = c]
    ELSE c
lower(s) == [k \in 1..Len(s) |-> LowerChar(s[k])]

\* What the operator may type at the prompt.
Answers ==
    { <<"y">>, <<"Y","E","S">>,
      <<>>, <<"n">>, <<"N","o">>, <<"y","e">>, <<" ","y">>, <<"y","e","s","s">> }

\* A test of the first character only.
ConfirmedByFirstChar(answer) == Len(answer) > 0 /\ lower(answer)[1] = "y"

\* confirmation.lower() in ['y', 'yes']
Confirmed(answer) == lower(answer) \in { <<"y">>, <<"y","e","s">> }

\* The table names of cleanup_operations, in list order; statement k is
\* "DELETE FROM " followed by name k.
cleanup_operations ==
    << "server_metrics", "predictions", "alerts", "anomalies",
       "remediation_actions", "audit_logs", "llm_usage",
       "agent_control_settings", "servers" >>

StatusRequest(o) ==
    [method |-> "GET", path |-> "/api/system/api-status", sql |-> "", outcome |-> o]
SqlRequest(table, o) ==
    [method |-> "POST", path |-> "/api/execute-sql", sql |-> table, outcome |-> o]

NoSummary == [processed |-> 0, cleaned |-> 0, issues |-> 0, verdict |-> "none"]

InitCleanup ==
    /\ pc = "prompt"
    /\ confirmation = <<>>
    /\ http = <<>>
    /\ op = 1
    /\ success_count = 0
    /\ summary = NoSummary
    /\ success = "none"
    /\ row = NoRow
    /\ metric = NoMetric
    /\ file_idx = 1
    /\ df = NoSheet
    /\ i = 0
    /\ total_metrics = 0
    /\ posts = <<>>
    /\ ended = "none"
    /\ returned = -1
    /\ acked_before = 0
    /\ rows_read = 0
    /\ sheets_read = 0
    /\ IdleOther

\* __main__: input(...), then the branch on the answer.
Prompt ==
    /\ pc = "prompt"
    /\ \E answer \in Answers :
        /\ confirmation' = answer
        /\ pc' = IF Confirmed(answer) THEN "check_server_status" ELSE "cancelled"
    /\ UNCHANGED <<http, op, success_count, summary, success, transform_vars, upload_vars, other_vars>>

\* A probe that takes any response for a running server.
ProbeOkAnyResponse(o) == ~o.raised

\* response.status_code == 200, and False on any exception
ProbeOk(o) == ~o.raised /\ o.status_code = 200

\* cleanup_data, first part: check_server_status() and the early return.
CheckServerStatus ==
    /\ pc = "check_server_status"
    /\ \E o \in Outcomes :
        /\ http' = Append(http, StatusRequest(o))
        /\ IF ProbeOk(o)
           THEN /\ pc' = "cleanup_loop"
                /\ success' = success
           ELSE /\ pc' = "reset_agent_states"
                /\ success' = "False"
    /\ UNCHANGED <<confirmation, op, success_count, summary, transform_vars, upload_vars, other_vars>>

\* A check that takes any response for success.
CleanedAnyResponse(o) == ~o.raised

\* response.status_code == 200 inside the try; an exception counts as failure
Cleaned(o) == ~o.raised /\ o.status_code = 200

\* A counter incremented in the except branch too.
NextCountAlways(count, o) == IF Cleaned(o) \/ o.raised THEN count + 1 ELSE count

\* success_count += 1 in the 200 branch only
NextCount(count, o) == IF Cleaned(o) THEN count + 1 ELSE count

\* A loop that gives up at the first exception.
ExecuteSqlBreak ==
    /\ pc = "cleanup_loop"
    /\ op <= Len(cleanup_operations)
    /\ \E o \in Outcomes :
        /\ http' = Append(http, SqlRequest(cleanup_operations[op], o))
        /\ success_count' = NextCount(success_count, o)
        /\ op' = IF o.raised THEN Len(cleanup_operations) + 1 ELSE op + 1
    /\ UNCHANGED <<pc, confirmation, summary, success, transform_vars, upload_vars, other_vars>>

\* One iteration of "for table_name, sql_query in cleanup_operations".
ExecuteSql ==
    /\ pc = "cleanup_loop"
    /\ op <= Len(cleanup_operations)
    /\ \E o \in Outcomes :
        /\ http' = Append(http, SqlRequest(cleanup_operations[op], o))
        /\ success_count' = NextCount(success_count, o)
    /\ op' = op + 1
    /\ UNCHANGED <<pc, confirmation, summary, success, transform_vars, upload_vars, other_vars>>

\* success_count == len(cleanup_operations)
AllCleaned(count) == count = Len(cleanup_operations)

\* cleanup_data, last part: the summary block and the return value.
CleanupSummary ==
    /\ pc = "cleanup_loop"
    /\ op > Len(cleanup_operations)
    /\ summary' = [processed |-> Len(cleanup_operations),
                   cleaned   |-> success_count,
                   issues    |-> IF AllCleaned(success_count)
                                 THEN 0
                                 ELSE Len(cleanup_operations) - success_count,
                   verdict   |-> IF AllCleaned(success_count)
                                 THEN "success" ELSE "partial"]
    /\ success' = IF AllCleaned(success_count) THEN "True" ELSE "False"
    /\ pc' = "reset_agent_states"
    /\ UNCHANGED <<confirmation, http, op, success_count, transform_vars, upload_vars, other_vars>>

\* reset_agent_states() prints only; then the "Next Steps" block if success.
ResetAgentStates ==
    /\ pc = "reset_agent_states"
    /\ pc' = "done"
    /\ UNCHANGED <<confirmation, http, op, success_count, summary, success, transform_vars, upload_vars, other_vars>>

\* "Cleanup cancelled by user"
Cancelled ==
    /\ pc = "cancelled"
    /\ pc' = "done"
    /\ UNCHANGED <<confirmation, http, op, success_count, summary, success, transform_vars, upload_vars, other_vars>>

NextCleanup ==
    \/ Prompt
    \/ CheckServerStatus
    \/ ExecuteSql
    \/ CleanupSummary
    \/ ResetAgentStates
    \/ Cancelled

SpecCleanup == InitCleanup /\ [][NextCleanup]_vars

(***************************************************************************)
(* SpecTransform: one row, drawn from the cells below, transformed by one  *)
(* of the two scripts.                                                     *)
(***************************************************************************)
MaxRaw == 250
Percentages == {Absent, NaN, Text, Num(-20), Num(37), Num(MaxRaw)}
Magnitudes == {Absent, NaN, Text, Num(-20), Num(37)}
Timestamps == {Absent, NaN, Text, Ts(7)}

Rows ==
    [cpu_usage : Percentages, memory_usage : Percentages, disk_usage : Percentages,
     network_latency : Magnitudes, network_throughput : Magnitudes,
     process_count : Magnitudes, timestamp : Timestamps]

InitTransform ==
    /\ pc = "row"
    /\ confirmation = <<>>
    /\ http = <<>>
    /\ op = 1
    /\ success_count = 0
    /\ summary = NoSummary
    /\ success = "none"
    /\ row \in Rows
    /\ metric = NoMetric
    /\ file_idx = 1
    /\ df = NoSheet
    /\ i = 0
    /\ total_metrics = 0
    /\ posts = <<>>
    /\ ended = "none"
    /\ returned = -1
    /\ acked_before = 0
    /\ rows_read = 0
    /\ sheets_read = 0
    /\ IdleOther

\* upload_metrics building one record of metrics_batch
TransformClean ==
    /\ pc = "row"
    /\ metric' = CleanMetric(row)
    /\ pc' = "upload_metrics"
    /\ UNCHANGED <<cleanup_vars, row, upload_vars, other_vars>>

\* upload_metrics_data building the parameters of one INSERT
TransformDirect ==
    /\ pc = "row"
    /\ \E idx \in {0, MaxRaw} : metric' = DirectMetric(row, idx)
    /\ pc' = "upload_metrics_data"
    /\ UNCHANGED <<cleanup_vars, row, upload_vars, other_vars>>

NextTransform == TransformClean \/ TransformDirect

SpecTransform == InitTransform /\ [][NextTransform]_vars

(***************************************************************************)
(* upload-clean-data.py: upload_metrics                                    *)
(*                                                                         *)
(* A sheet is kept as its number of rows and the position of the one row   *)
(* (if any) whose conversion raises; its rows follow from these.  Row k    *)
(* (1-based; the code's 0-based index is k - 1) carries timestamp k.       *)
(***************************************************************************)
batch_size == 100
MaxRows == 201
\* At most this many of the eight files hold a readable sheet.
MaxSheets == 2

metrics_files ==
    << "metrics_2025-08-08", "metrics_2025-08-09", "metrics_2025-08-10",
       "metrics_2025-08-11", "metrics_2025-08-12", "metrics_2025-08-13",
       "metrics_2025-08-14", "metrics_2025-08-15" >>

Cycle(values, k) == values[(k % Len(values)) + 1]

SheetRow(sheet, k) ==
    [cpu_usage          |-> Cycle(<<Num(37), NaN, Num(MaxRaw), Num(-20)>>, k),
     memory_usage       |-> Cycle(<<Num(64), Num(100), NaN>>, k),
     disk_usage         |-> Cycle(<<Num(50), Num(MaxRaw), NaN, Num(-20), Num(0)>>, k),
     network_latency    |-> Cycle(<<Num(12), Num(-20)>>, k),
     network_throughput |-> Cycle(<<Num(900), NaN, Num(37)>>, k),
     process_count      |-> IF k = sheet.bad THEN NaN ELSE Num(50 + (k % 7)),
     timestamp          |-> Ts(k)]

\* The sheets a metrics file may hold: empty, exactly one batch, one row
\* more, several batches; with no bad row or one in any batch.
SheetLengths == {0, batch_size, batch_size + 1, MaxRows}
BadPositions(n) == {0} \cup ({1, batch_size + 1, n} \cap 1..n)
Sheets ==
    {sh \in [len : SheetLengths, bad : 0..MaxRows] : sh.bad \in BadPositions(sh.len)}

\* /api/metrics answers 200 or 201 on success.
UploadStatusCodes == {200, 201, 500}
UploadOutcomes == {Response(c) : c \in UploadStatusCodes} \cup {Raised}

\* df.iloc[i:i+batch_size]: the 1-based positions of the rows of the slice
BatchRows(sheet, start) ==
    [m \in 1..(IF start + batch_size <= sheet.len
               THEN batch_size ELSE sheet.len - start) |-> start + m]

\* The record of row k of a sheet: of a sheet without a bad row (tabulated
\* once), and of any sheet.
GoodMetrics == [k \in 1..MaxRows |-> CleanMetric(SheetRow(NoSheet, k))]
SheetMetric(sheet, k) ==
    IF k = sheet.bad THEN CleanMetric(SheetRow(sheet, k)) ELSE GoodMetrics[k]

\* metrics_batch for the slice starting at start
MetricsBatch(sheet, start) ==
    LET rows == BatchRows(sheet, start)
    IN [m \in 1..Len(rows) |-> SheetMetric(sheet, rows[m])]

\* requests.post(".../api/metrics", json={"metrics": metrics_batch}) as it
\* is logged: where the batch starts, the timestamps of the records sent,
\* in the order sent, and the outcome.
MetricsPost(start, metrics_batch, o) ==
    [start      |-> start,
     timestamps |-> [m \in 1..Len(metrics_batch) |-> metrics_batch[m].timestamp.val],
     outcome    |-> o]

\* A check that counts every answered request as uploaded.
UploadedAnyResponse(o) == ~o.raised

\* response.status_code in [200, 201]; an exception counts as failure
Uploaded(o) == ~o.raised /\ o.status_code \in {200, 201}

\* The rows acknowledged among the POSTs of a file.
RECURSIVE AckedRows(_)
AckedRows(ps) ==
    IF ps = <<>> THEN 0
    ELSE AckedRows(Tail(ps)) +
         (IF Head(ps).outcome \in {Response(200), Response(201)}
          THEN Len(Head(ps).timestamps) ELSE 0)

InitUpload ==
    /\ pc = "metrics_files"
    /\ confirmation = <<>>
    /\ http = <<>>
    /\ op = 1
    /\ success_count = 0
    /\ summary = NoSummary
    /\ success = "none"
    /\ row = NoRow
    /\ metric = NoMetric
    /\ file_idx = 1
    /\ df = NoSheet
    /\ i = 0
    /\ total_metrics = 0
    /\ posts = <<>>
    /\ ended = "none"
    /\ returned = -1
    /\ acked_before = 0
    /\ rows_read = 0
    /\ sheets_read = 0
    /\ IdleOther

\* "if not os.path.exists(file_path): continue"
SkipMissingFile ==
    /\ pc = "metrics_files"
    /\ file_idx <= Len(metrics_files)
    /\ file_idx' = file_idx + 1
    /\ df' = NoSheet
    /\ posts' = <<>>
    /\ acked_before' = acked_before + AckedRows(posts)
    /\ ended' = "missing"
    /\ UNCHANGED <<pc, cleanup_vars, transform_vars, other_vars, i, total_metrics, returned,
                   rows_read, sheets_read>>

\* pd.read_excel raises: caught by the file's except, next file
ReadExcelFails ==
    /\ pc = "metrics_files"
    /\ file_idx <= Len(metrics_files)
    /\ file_idx' = file_idx + 1
    /\ df' = NoSheet
    /\ posts' = <<>>
    /\ acked_before' = acked_before + AckedRows(posts)
    /\ ended' = "read_error"
    /\ UNCHANGED <<pc, cleanup_vars, transform_vars, other_vars, i, total_metrics, returned,
                   rows_read, sheets_read>>

\* df = pd.read_excel(file_path); the batch loop starts at 0
ReadExcel ==
    /\ pc = "metrics_files"
    /\ file_idx <= Len(metrics_files)
    /\ sheets_read < MaxSheets
    /\ \E sheet \in Sheets :
        /\ df' = sheet
        /\ rows_read' = rows_read + sheet.len
    /\ sheets_read' = sheets_read + 1
    /\ i' = 0
    /\ posts' = <<>>
    /\ acked_before' = acked_before + AckedRows(posts)
    /\ ended' = "none"
    /\ pc' = "batches"
    /\ UNCHANGED <<cleanup_vars, transform_vars, other_vars, file_idx, total_metrics, returned>>

\* One iteration of "for i in range(0, len(df), batch_size)": the batch is
\* built row by row; a row that raises ends the file's try block (line 120);
\* otherwise the batch is posted and counted when acknowledged.
UploadBatch ==
    /\ pc = "batches"
    /\ i < df.len
    /\ LET metrics_batch == MetricsBatch(df, i)
       IN IF \E m \in 1..Len(metrics_batch) : metrics_batch[m].raised
          THEN /\ ended' = "row_error"
               /\ file_idx' = file_idx + 1
               /\ pc' = "metrics_files"
               /\ UNCHANGED <<i, total_metrics, posts>>
          ELSE /\ \E o \in UploadOutcomes :
                    /\ posts' = Append(posts, MetricsPost(i, metrics_batch, o))
                    /\ total_metrics' = IF Uploaded(o)
                                        THEN total_metrics + Len(metrics_batch)
                                        ELSE total_metrics
               /\ i' = i + batch_size
               /\ UNCHANGED <<pc, file_idx, ended>>
    /\ UNCHANGED <<cleanup_vars, transform_vars, other_vars, df, returned, acked_before,
                   rows_read, sheets_read>>

\* range(0, len(df), batch_size) is exhausted: next file
EndOfFile ==
    /\ pc = "batches"
    /\ i >= df.len
    /\ ended' = "exhausted"
    /\ file_idx' = file_idx + 1
    /\ pc' = "metrics_files"
    /\ UNCHANGED <<cleanup_vars, transform_vars, other_vars, df, i, total_metrics, posts,
                   returned, acked_before, rows_read, sheets_read>>

\* "return total_metrics"
ReturnTotal ==
    /\ pc = "metrics_files"
    /\ file_idx > Len(metrics_files)
    /\ returned' = total_metrics
    /\ pc' = "done"
    /\ UNCHANGED <<cleanup_vars, transform_vars, other_vars, file_idx, df, i, total_metrics,
                   posts, ended, acked_before, rows_read, sheets_read>>

NextUpload ==
    \/ SkipMissingFile
    \/ ReadExcelFails
    \/ ReadExcel
    \/ UploadBatch
    \/ EndOfFile
    \/ ReturnTotal

SpecUpload == InitUpload /\ [][NextUpload]_vars

(***************************************************************************)
(* run_comprehensive_test of upload-clean-data.py: upload_servers, then    *)
(* upload_metrics (the actions of NextUpload), then test_all_agents.       *)
(***************************************************************************)
IdleCleanup ==
    /\ confirmation = <<>>
    /\ http = <<>>
    /\ op = 1
    /\ success_count = 0
    /\ summary = NoSummary
    /\ success = "none"
IdleTransform ==
    /\ row = NoRow
    /\ metric = NoMetric
IdleUpload ==
    /\ file_idx = 1
    /\ df = NoSheet
    /\ i = 0
    /\ total_metrics = 0
    /\ posts = <<>>
    /\ ended = "none"
    /\ returned = -1
    /\ acked_before = 0
    /\ rows_read = 0
    /\ sheets_read = 0

\* The server sheet holds no row, or this many.
MaxServers == 1
ServerSheetLengths == {0, MaxServers}

\* "if response.status_code in [200, 201]" of upload_servers
Created(o) == ~o.raised /\ o.status_code \in {200, 201}

\* A test that lets the run proceed on any count.
ProceedAlways(count) == count >= 0

\* "if servers_count > 0:", "if metrics_count > 0:"
Proceed(count) == count > 0

InitCleanRun ==
    /\ pc = "upload_servers"
    /\ IdleCleanup
    /\ IdleTransform
    /\ IdleUpload
    /\ IdleDirect
    /\ script = "upload-clean-data"
    /\ servers = 0
    /\ server_idx = 0
    /\ server_acked = FALSE
    /\ servers_count = -1
    /\ metrics_count = -1
    /\ slept = <<>>
    /\ verified = <<>>
    /\ response = "none"
    /\ IdleLater

\* upload_servers: pd.read_excel succeeds and one record is built per row
ReadServers ==
    /\ pc = "upload_servers"
    /\ \E n \in ServerSheetLengths : servers' = n
    /\ server_idx' = 0
    /\ pc' = "servers"
    /\ UNCHANGED <<cleanup_vars, transform_vars, later_vars, upload_vars, direct_vars,
                   script, server_acked, servers_count, metrics_count, slept,
                   verified, response>>

\* upload_servers: pd.read_excel raises; the outer except returns 0
ReadServersFails ==
    /\ pc = "upload_servers"
    /\ servers_count' = 0
    /\ pc' = "servers_count"
    /\ UNCHANGED <<cleanup_vars, transform_vars, later_vars, upload_vars, direct_vars,
                   script, servers, server_idx, server_acked, metrics_count,
                   slept, verified, response>>

\* upload_servers: one iteration of "for server in servers"; whatever the
\* outcome, only a line is printed
PostServer ==
    /\ pc = "servers"
    /\ server_idx < servers
    /\ \E o \in UploadOutcomes :
        server_acked' = (server_acked \/ Created(o))
    /\ server_idx' = server_idx + 1
    /\ UNCHANGED <<pc, cleanup_vars, transform_vars, later_vars, upload_vars, direct_vars,
                   script, servers, servers_count, metrics_count, slept,
                   verified, response>>

\* upload_servers: "return len(servers)"
ReturnServers ==
    /\ pc = "servers"
    /\ server_idx >= servers
    /\ servers_count' = servers
    /\ pc' = "servers_count"
    /\ UNCHANGED <<cleanup_vars, transform_vars, later_vars, upload_vars, direct_vars,
                   script, servers, server_idx, server_acked, metrics_count,
                   slept, verified, response>>

\* run_comprehensive_test: "if servers_count > 0:" time.sleep(10) and the
\* call of upload_metrics; otherwise the run is over
AfterServers ==
    /\ pc = "servers_count"
    /\ IF Proceed(servers_count)
       THEN /\ slept' = Append(slept, 10)
            /\ pc' = "metrics_files"
       ELSE /\ pc' = "finished"
            /\ UNCHANGED slept
    /\ UNCHANGED <<cleanup_vars, transform_vars, later_vars, upload_vars, direct_vars,
                   script, servers, server_idx, server_acked, servers_count,
                   metrics_count, verified, response>>

\* run_comprehensive_test: "metrics_count = upload_metrics()"; the locals of
\* upload_metrics are gone; "if metrics_count > 0:" time.sleep(30) and the
\* call of test_all_agents; otherwise the run is over
AfterMetrics ==
    /\ pc = "done"
    /\ script = "upload-clean-data"
    /\ metrics_count' = returned
    /\ IF Proceed(returned)
       THEN /\ slept' = Append(slept, 30)
            /\ pc' = "test_all_agents"
       ELSE /\ pc' = "finished"
            /\ UNCHANGED slept
    /\ file_idx' = 1
    /\ df' = NoSheet
    /\ i' = 0
    /\ total_metrics' = 0
    /\ posts' = <<>>
    /\ ended' = "none"
    /\ returned' = -1
    /\ acked_before' = 0
    /\ rows_read' = 0
    /\ sheets_read' = 0
    /\ UNCHANGED <<cleanup_vars, transform_vars, later_vars, direct_vars,
                   script, servers, server_idx, server_acked, servers_count,
                   verified, response>>

\* The agents of both scripts, in list order.
agents ==
    << "telemetry-collector-001", "anomaly-detector-001",
       "predictive-analytics-001", "recommendation-engine-001",
       "approval-compliance-001", "remediation-executor-001",
       "audit-reporting-001" >>

\* f"{BASE_URL}/api/agents/{agent_id}/details", without the base URL
AgentDetails(agent_id) == "/api/agents/" \o agent_id \o "/details"

\* A list that names /api/servers twice.
endpointsTwice ==
    << "/api/servers", "/api/servers", "/api/alerts", "/api/anomalies",
       "/api/predictions", "/api/remediation-actions", "/api/audit-logs" >>

\* test_all_agents: the paths of its endpoints list
endpoints ==
    << "/api/servers", "/api/alerts", "/api/anomalies", "/api/predictions",
       "/api/remediation-actions", "/api/audit-logs" >>

\* The requests of test_all_agents in program order: the agents' details,
\* then the data outputs.
CleanRequests == [k \in 1..Len(agents) |-> AgentDetails(agents[k])] \o endpoints

\* What a verification GET can come to: a response, or an exception (raised
\* by requests, or by the parsing of a 200 answer); each is caught inside
\* the loop body.
VerifyOutcomes == {"200", "other status", "exception"}

\* test_all_agents: one iteration of either loop; the outcome only changes
\* what is printed
TestAllAgents ==
    /\ pc = "test_all_agents"
    /\ Len(verified) < Len(CleanRequests)
    /\ verified' = Append(verified, CleanRequests[Len(verified) + 1])
    /\ \E o \in VerifyOutcomes : response' = o
    /\ UNCHANGED <<pc, cleanup_vars, transform_vars, later_vars, upload_vars, direct_vars,
                   script, servers, server_idx, server_acked, servers_count,
                   metrics_count, slept>>

\* test_all_agents returns, and so does run_comprehensive_test
FinishClean ==
    /\ pc = "test_all_agents"
    /\ Len(verified) >= Len(CleanRequests)
    /\ pc' = "finished"
    /\ UNCHANGED <<cleanup_vars, transform_vars, upload_vars, other_vars>>

NextCleanRun ==
    \/ ReadServers
    \/ ReadServersFails
    \/ PostServer
    \/ ReturnServers
    \/ AfterServers
    \/ NextUpload
    \/ AfterMetrics
    \/ TestAllAgents
    \/ FinishClean

(***************************************************************************)
(* run_comprehensive_test of direct-data-upload.py: upload_metrics_data,   *)
(* the wait, test_system_outputs and test_agent_details.  df is the sheet  *)
(* read, i the label of the next row (0-based; row i is row i + 1 of the   *)
(* sheet), returned the value upload_metrics_data returns.                 *)
(***************************************************************************)
\* "if i >= 500", "if inserted_count % 50 == 0", "LIMIT 10"
record_limit == 500
commit_interval == 50
server_limit == 10
MaxDirectRows == 501

\* Row k of the sheet; the cpu_usage cell of the bad row holds text.
DirectRow(sheet, k) ==
    [cpu_usage          |-> IF k = sheet.bad THEN Text
                            ELSE Cycle(<<Num(37), NaN, Num(MaxRaw), Num(-20)>>, k),
     memory_usage       |-> Cycle(<<Num(64), Num(100), NaN>>, k),
     disk_usage         |-> Cycle(<<Num(50), Num(MaxRaw), NaN, Num(-20), Num(0)>>, k),
     network_latency    |-> Absent,
     network_throughput |-> Absent,
     process_count      |-> Absent,
     timestamp          |-> Absent]

\* The sheets the metrics file may hold: empty, one row, up to the commit
\* interval, up to the record limit, beyond it; with no bad row or one.
DirectSheetLengths == {0, 1, commit_interval, record_limit, MaxDirectRows}
DirectBadPositions(n) == {0} \cup ({1, commit_interval, n} \cap 1..n)
DirectSheets ==
    {sh \in [len : DirectSheetLengths, bad : 0..MaxDirectRows] :
        sh.bad \in DirectBadPositions(sh.len)}

\* How many ids "SELECT id FROM servers LIMIT 10" may return.
ServerIdCounts == {0, 1, server_limit}

InitDirectRun ==
    /\ pc = "upload_metrics_data"
    /\ IdleCleanup
    /\ IdleTransform
    /\ IdleUpload
    /\ IdleDirect
    /\ script = "direct-data-upload"
    /\ servers = 0
    /\ server_idx = 0
    /\ server_acked = FALSE
    /\ servers_count = -1
    /\ metrics_count = -1
    /\ slept = <<>>
    /\ verified = <<>>
    /\ response = "none"
    /\ IdleLater

\* df = pd.read_excel(...)
ReadMetrics ==
    /\ pc = "upload_metrics_data"
    /\ \E sheet \in DirectSheets : df' = sheet
    /\ pc' = "connect"
    /\ UNCHANGED <<cleanup_vars, transform_vars, other_vars, file_idx, i,
                   total_metrics, posts, ended, returned, acked_before,
                   rows_read, sheets_read>>

\* pd.read_excel raises: nothing catches it, the script dies
ReadMetricsFails ==
    /\ pc = "upload_metrics_data"
    /\ pc' = "crashed"
    /\ UNCHANGED <<cleanup_vars, transform_vars, upload_vars, other_vars>>

\* conn = get_db_connection(); cur = conn.cursor()
GetDbConnection ==
    /\ pc = "connect"
    /\ conn' = "open"
    /\ open_connections' = open_connections + 1
    /\ pc' = "select"
    /\ UNCHANGED <<cleanup_vars, transform_vars, later_vars, upload_vars, run_vars,
                   server_ids, server_id, inserted_count, uncommitted, commits>>

\* The SELECT raises: nothing catches it, the script dies
SelectFails ==
    /\ pc = "select"
    /\ pc' = "crashed"
    /\ UNCHANGED <<cleanup_vars, transform_vars, upload_vars, other_vars>>

\* server_ids = [...]; "if not server_ids: return 0"; otherwise the row
\* loop starts
SelectServerIds ==
    /\ pc = "select"
    /\ \E n \in ServerIdCounts :
        /\ server_ids' = n
        /\ IF n = 0
           THEN /\ returned' = 0
                /\ pc' = "returned"
           ELSE /\ pc' = "rows"
                /\ UNCHANGED returned
    /\ i' = 0
    /\ inserted_count' = 0
    /\ UNCHANGED <<cleanup_vars, transform_vars, later_vars, run_vars, file_idx, df,
                   total_metrics, posts, ended, acked_before, rows_read,
                   sheets_read, conn, open_connections, server_id,
                   uncommitted, commits>>

\* A commit after every insert.
CommitDueAlways(count) == count % 1 = 0

\* inserted_count % 50 == 0
CommitDue(count) == count % commit_interval = 0

\* One iteration of "for i, row in df.iterrows()" below the limit:
\* server_ids[i % len(server_ids)] is chosen first; a row that raises is
\* reported and skipped; any other row is inserted, counted, and every
\* 50th commits.
InsertRow ==
    /\ pc = "rows"
    /\ i < df.len
    /\ i < record_limit
    /\ server_id' = i % server_ids
    /\ IF DirectMetric(DirectRow(df, i + 1), i).raised
       THEN UNCHANGED <<inserted_count, uncommitted, commits>>
       ELSE /\ inserted_count' = inserted_count + 1
            /\ IF CommitDue(inserted_count + 1)
               THEN /\ commits' = commits + 1
                    /\ uncommitted' = 0
               ELSE /\ uncommitted' = uncommitted + 1
                    /\ UNCHANGED commits
    /\ i' = i + 1
    /\ UNCHANGED <<pc, cleanup_vars, transform_vars, later_vars, run_vars, file_idx, df,
                   total_metrics, posts, ended, returned, acked_before,
                   rows_read, sheets_read, conn, open_connections, server_ids>>

\* The loop ends (rows exhausted, or "if i >= 500: break"): conn.commit(),
\* cur.close(), conn.close(), "return inserted_count"
CommitAndClose ==
    /\ pc = "rows"
    /\ i >= df.len \/ i >= record_limit
    /\ commits' = commits + 1
    /\ uncommitted' = 0
    /\ conn' = "closed"
    /\ open_connections' = open_connections - 1
    /\ returned' = inserted_count
    /\ pc' = "returned"
    /\ UNCHANGED <<cleanup_vars, transform_vars, later_vars, run_vars, file_idx, df, i,
                   total_metrics, posts, ended, acked_before, rows_read,
                   sheets_read, server_ids, server_id, inserted_count>>

\* run_comprehensive_test: "metrics_count = upload_metrics_data()"; the
\* sheet and the loop index are gone; "if metrics_count > 0:"
\* trigger_agent_processing() sleeps 60 seconds; otherwise the run is over
AfterMetricsData ==
    /\ pc = "returned"
    /\ metrics_count' = returned
    /\ IF Proceed(returned)
       THEN /\ slept' = Append(slept, 60)
            /\ pc' = "test_system_outputs"
       ELSE /\ pc' = "finished"
            /\ UNCHANGED slept
    /\ df' = NoSheet
    /\ i' = 0
    /\ returned' = -1
    /\ UNCHANGED <<cleanup_vars, transform_vars, later_vars, direct_vars, file_idx,
                   total_metrics, posts, ended, acked_before, rows_read,
                   sheets_read, script, servers, server_idx, server_acked,
                   servers_count, verified, response>>

\* test_system_outputs: the paths of its endpoints list
output_endpoints ==
    << "/api/servers", "/api/alerts", "/api/anomalies", "/api/predictions",
       "/api/remediation-actions", "/api/audit-logs", "/api/dashboard/metrics" >>

\* The requests of test_system_outputs, then those of test_agent_details.
DirectRequests ==
    output_endpoints \o [k \in 1..Len(agents) |-> AgentDetails(agents[k])]

\* test_system_outputs: one iteration of its loop; the outcome is recorded
\* in the function's own result and changes nothing else
TestSystemOutputs ==
    /\ pc = "test_system_outputs"
    /\ Len(verified) < Len(output_endpoints)
    /\ verified' = Append(verified, DirectRequests[Len(verified) + 1])
    /\ \E o \in VerifyOutcomes : response' = o
    /\ UNCHANGED <<pc, cleanup_vars, transform_vars, later_vars, upload_vars, direct_vars,
                   script, servers, server_idx, server_acked, servers_count,
                   metrics_count, slept>>

\* test_system_outputs returns; test_agent_details is called
OutputsTested ==
    /\ pc = "test_system_outputs"
    /\ Len(verified) >= Len(output_endpoints)
    /\ pc' = "test_agent_details"
    /\ UNCHANGED <<cleanup_vars, transform_vars, upload_vars, other_vars>>

\* test_agent_details: one iteration of its loop
TestAgentDetails ==
    /\ pc = "test_agent_details"
    /\ Len(verified) < Len(DirectRequests)
    /\ verified' = Append(verified, DirectRequests[Len(verified) + 1])
    /\ \E o \in VerifyOutcomes : response' = o
    /\ UNCHANGED <<pc, cleanup_vars, transform_vars, later_vars, upload_vars, direct_vars,
                   script, servers, server_idx, server_acked, servers_count,
                   metrics_count, slept>>

\* test_agent_details returns; the report is printed and the run is over
FinishDirect ==
    /\ pc = "test_agent_details"
    /\ Len(verified) >= Len(DirectRequests)
    /\ pc' = "finished"
    /\ UNCHANGED <<cleanup_vars, transform_vars, upload_vars, other_vars>>

NextDirectRun ==
    \/ ReadMetrics
    \/ ReadMetricsFails
    \/ GetDbConnection
    \/ SelectFails
    \/ SelectServerIds
    \/ InsertRow
    \/ CommitAndClose
    \/ AfterMetricsData
    \/ TestSystemOutputs
    \/ OutputsTested
    \/ TestAgentDetails
    \/ FinishDirect

\* Either script is run, from its start to its end.
InitRun == InitCleanRun \/ InitDirectRun
NextRun == NextCleanRun \/ NextDirectRun
SpecRun == InitRun /\ [][NextRun]_vars

(***************************************************************************)
(* test-comprehensive.py: PlatformTester.run_comprehensive_test.           *)
(*                                                                         *)
(* test_results maps a test name to the status last logged for it.  At     *)
(* most MaxDeviations steps of a run meet something else than plain        *)
(* success (a file that cannot be read, a request that fails, data that    *)
(* earns a FAIL, WARN or INFO).                                            *)
(***************************************************************************)
MaxDeviations == 5

\* A log_test that keeps the status first logged for a name.
LogTestKeepFirst(results, test_name, status) ==
    [n \in DOMAIN results \cup {test_name} |->
        IF n \in DOMAIN results THEN results[n] ELSE status]

\* self.test_results[test_name] = {"status": status, ...}
LogTest(results, test_name, status) ==
    [n \in DOMAIN results \cup {test_name} |->
        IF n = test_name THEN status ELSE results[n]]

Call(test_name, status) == [test_name |-> test_name, status |-> status]

\* The effect of a sequence of log_test calls, made in order.
RECURSIVE LogAll(_, _)
LogAll(results, calls) ==
    IF calls = <<>> THEN results
    ELSE LogAll(LogTest(results, Head(calls).test_name, Head(calls).status),
                Tail(calls))

\* A step of the run that makes the given log_test calls and uses up cost
\* of the run's deviations.
Logs(calls, cost) ==
    /\ deviations + cost <= MaxDeviations
    /\ deviations' = deviations + cost
    /\ test_results' = LogAll(test_results, calls)
    /\ logged' = logged \o calls

\* The keys of load_excel_data's files, in dict order.
files == << "servers", "metrics", "alerts", "remediations", "audit_logs" >>

\* What the try block of load_excel_data comes to for a file: read_excel
\* raises; the sheet is read; and for the alert sheet, whose duplicates are
\* counted, it has duplicates, or lacks a column duplicated() is asked for.
LoadOutcomes(name) ==
    {"read_error", "loaded"} \cup
    (IF name = "alerts" THEN {"duplicates", "missing_column"} ELSE {})

\* An iteration that logs nothing for a file that cannot be read.
LoadCallsSilent(name, outcome) ==
    IF outcome = "read_error" THEN << >>
    ELSE << Call("Load " \o name, "PASS") >>

\* The log_test calls of one iteration of load_excel_data's loop.
LoadCalls(name, outcome) ==
    CASE outcome = "read_error" ->
            << Call("Load " \o name, "FAIL") >>
      [] outcome = "loaded" /\ name # "alerts" ->
            << Call("Load " \o name, "PASS") >>
      [] outcome = "loaded" /\ name = "alerts" ->
            << Call("Load " \o name, "PASS"),
               Call("Alert Duplicates Check", "PASS") >>
      [] outcome = "duplicates" ->
            << Call("Load " \o name, "PASS"),
               Call("Alert Duplicates Check", "FAIL") >>
      [] outcome = "missing_column" ->
            << Call("Load " \o name, "PASS"),
               Call("Load " \o name, "FAIL") >>

InitTester ==
    /\ pc = "load_excel_data"
    /\ IdleCleanup
    /\ IdleTransform
    /\ IdleUpload
    /\ IdleRun
    /\ IdleDirect
    /\ IdleDedup
    /\ IdleHelper
    /\ IdleSql
    /\ test_results = EmptyResults
    /\ loaded_data = {}
    /\ logged = <<>>
    /\ item = 1
    /\ uploaded = <<>>
    /\ printed = NoPrint
    /\ report = NoReport
    /\ deviations = 0

\* load_excel_data: one iteration of "for name, file_path in files.items()"
LoadExcelData ==
    /\ pc = "load_excel_data"
    /\ item <= Len(files)
    /\ \E outcome \in LoadOutcomes(files[item]) :
        /\ Logs(LoadCalls(files[item], outcome),
                IF outcome = "loaded" THEN 0 ELSE 1)
        /\ loaded_data' = IF outcome = "read_error" THEN loaded_data
                          ELSE loaded_data \cup {files[item]}
    /\ item' = item + 1
    /\ UNCHANGED <<pc, early_vars, dedup_vars, helper_vars, sql_vars, uploaded, printed, report>>

\* load_excel_data returns; test_api_endpoints is called
DataLoaded ==
    /\ pc = "load_excel_data"
    /\ item > Len(files)
    /\ pc' = "test_api_endpoints"
    /\ item' = 1
    /\ UNCHANGED <<early_vars, dedup_vars, helper_vars, sql_vars, test_results, loaded_data,
                   logged, uploaded, printed, report, deviations>>

\* test_api_endpoints: the paths of its endpoints list
api_endpoints ==
    << "/api/servers", "/api/alerts", "/api/remediation-actions",
       "/api/agents", "/api/dashboard/metrics", "/api/audit-logs" >>

\* A request passes when it is answered 200 and the body parses.
Passes(o) == IF ~o.raised /\ o.status_code = 200 THEN "PASS" ELSE "FAIL"
Cost(o) == IF o = Response(200) THEN 0 ELSE 1

\* test_api_endpoints: one iteration of its loop
TestApiEndpoints ==
    /\ pc = "test_api_endpoints"
    /\ item <= Len(api_endpoints)
    /\ \E o \in Outcomes :
        Logs(<< Call("API " \o api_endpoints[item], Passes(o)) >>, Cost(o))
    /\ item' = item + 1
    /\ UNCHANGED <<pc, early_vars, dedup_vars, helper_vars, sql_vars, loaded_data, uploaded,
                   printed, report>>

\* test_api_endpoints returns; upload_and_test_data is called
EndpointsTested ==
    /\ pc = "test_api_endpoints"
    /\ item > Len(api_endpoints)
    /\ pc' = "upload_servers_csv"
    /\ item' = 1
    /\ UNCHANGED <<early_vars, dedup_vars, helper_vars, sql_vars, test_results, loaded_data,
                   logged, uploaded, printed, report, deviations>>

\* A test that takes every sheet for loaded.
LoadedAlways(name) == TRUE

\* "if 'servers' in self.loaded_data:", "if 'metrics' in self.loaded_data:"
Loaded(name) == name \in loaded_data

\* One half of upload_and_test_data: the sheet, if loaded, is posted to
\* /api/upload-csv and the outcome logged under test_name.
UploadCsv(name, test_name) ==
    IF Loaded(name)
    THEN /\ uploaded' = Append(uploaded, name)
         /\ \E o \in Outcomes : Logs(<< Call(test_name, Passes(o)) >>, Cost(o))
    ELSE /\ UNCHANGED <<uploaded, test_results, logged, deviations>>

\* upload_and_test_data, the servers
UploadServers ==
    /\ pc = "upload_servers_csv"
    /\ UploadCsv("servers", "Upload Servers")
    /\ pc' = "upload_metrics_csv"
    /\ UNCHANGED <<early_vars, dedup_vars, helper_vars, sql_vars, loaded_data, item, printed,
                   report>>

\* upload_and_test_data, the metrics; test_agent_optimization is called
UploadMetrics ==
    /\ pc = "upload_metrics_csv"
    /\ UploadCsv("metrics", "Upload Metrics")
    /\ pc' = "test_agent_optimization"
    /\ UNCHANGED <<early_vars, dedup_vars, helper_vars, sql_vars, loaded_data, item, printed,
                   report>>

\* test_agent_optimization: the Recommendation Engine is among the agents
\* returned, or is not, or the answer is not 200 (nothing is logged), or
\* something raises
TestAgentOptimization ==
    /\ pc = "test_agent_optimization"
    /\ \/ Logs(<< Call("Circuit Breaker Check", "PASS") >>, 0)
       \/ Logs(<< Call("Circuit Breaker Check", "WARN") >>, 1)
       \/ Logs(<< >>, 1)
       \/ Logs(<< Call("Circuit Breaker Check", "FAIL") >>, 1)
    /\ pc' = "test_alert_deduplication"
    /\ UNCHANGED <<early_vars, dedup_vars, helper_vars, sql_vars, loaded_data, item, uploaded,
                   printed, report>>

\* test_alert_deduplication: no duplicate key among the alerts returned;
\* or a duplicate, another status than 200, an exception
TestAlertDeduplication ==
    /\ pc = "test_alert_deduplication"
    /\ \/ Logs(<< Call("Alert Deduplication", "PASS") >>, 0)
       \/ Logs(<< Call("Alert Deduplication", "FAIL") >>, 1)
    /\ pc' = "test_dashboard_features"
    /\ UNCHANGED <<early_vars, dedup_vars, helper_vars, sql_vars, loaded_data, item, uploaded,
                   printed, report>>

\* test_dashboard_features: all four fields present; or one missing,
\* another status than 200, an exception
TestDashboardFeatures ==
    /\ pc = "test_dashboard_features"
    /\ \/ Logs(<< Call("Dashboard Metrics", "PASS") >>, 0)
       \/ Logs(<< Call("Dashboard Metrics", "FAIL") >>, 1)
    /\ pc' = "test_llm_usage_tracking"
    /\ UNCHANGED <<early_vars, dedup_vars, helper_vars, sql_vars, loaded_data, item, uploaded,
                   printed, report>>

\* test_llm_usage_tracking: usage data of at most 100 records; of more; or
\* the endpoint answers another status than 200 or the request raises
TestLlmUsageTracking ==
    /\ pc = "test_llm_usage_tracking"
    /\ \/ Logs(<< Call("LLM Usage Tracking", "PASS"),
                  Call("LLM Usage Volume", "PASS") >>, 0)
       \/ Logs(<< Call("LLM Usage Tracking", "PASS"),
                  Call("LLM Usage Volume", "WARN") >>, 1)
       \/ Logs(<< Call("LLM Usage Tracking", "INFO") >>, 1)
    /\ pc' = "generate_report"
    /\ UNCHANGED <<early_vars, dedup_vars, helper_vars, sql_vars, loaded_data, item, uploaded,
                   printed, report>>

\* A count that takes INFO entries along with the status asked for.
CountLoose(results, status) ==
    Cardinality({n \in DOMAIN results : results[n] \in {status, "INFO"}})

\* sum(1 for result in self.test_results.values() if result['status'] == status)
Count(results, status) ==
    Cardinality({n \in DOMAIN results : results[n] = status})

\* f"{x:.1f}" of x = passed / total * 100, in tenths of a percent: the
\* nearest tenth, the even one on a tie
Format1f(passed, total) ==
    LET scaled == passed * 1000
        q == scaled \div total
        r == scaled % total
    IN IF 2 * r > total \/ (2 * r = total /\ q % 2 = 1) THEN q + 1 ELSE q

\* generate_report: the counts, the printed summary, test_report.json; with
\* no entry at all the division raises and nothing is written
GenerateReport ==
    /\ pc = "generate_report"
    /\ LET total == Cardinality(DOMAIN test_results)
           passed == Count(test_results, "PASS")
           failed == Count(test_results, "FAIL")
           warnings == Count(test_results, "WARN")
           info == Count(test_results, "INFO")
       IN IF total = 0
          THEN /\ pc' = "crashed"
               /\ UNCHANGED <<printed, report>>
          ELSE /\ printed' = [total |-> total, passed |-> passed,
                              failed |-> failed, warnings |-> warnings,
                              info |-> info,
                              success_rate |-> Format1f(passed, total)]
               /\ report' = [total |-> total, passed |-> passed,
                             failed |-> failed, warnings |-> warnings,
                             info |-> info,
                             success_rate |-> [num |-> passed * 100, den |-> total]]
               /\ pc' = "reported"
    /\ UNCHANGED <<early_vars, dedup_vars, helper_vars, sql_vars, test_results, loaded_data,
                   logged, item, uploaded, deviations>>

NextTester ==
    \/ LoadExcelData
    \/ DataLoaded
    \/ TestApiEndpoints
    \/ EndpointsTested
    \/ UploadServers
    \/ UploadMetrics
    \/ TestAgentOptimization
    \/ TestAlertDeduplication
    \/ TestDashboardFeatures
    \/ TestLlmUsageTracking
    \/ GenerateReport

SpecTester == InitTester /\ [][NextTester]_vars

(***************************************************************************)
(* upload-helper.py.  argv holds the arguments after the script's name, so *)
(* len(sys.argv) is Len(argv) + 1.                                         *)
(***************************************************************************)
MaxArgs == 3

\* The paths the script may be given, and what each file is: a sheet of
\* some rows, a sheet whose header cells are dates (keys json cannot
\* write), a file that is no workbook, no file at all.
Paths == {"metrics.xlsx", "empty.xlsx", "dated.xlsx", "notes.txt", "missing.xlsx"}
FileKind(filepath) ==
    CASE filepath = "metrics.xlsx" -> "sheet"
      [] filepath = "empty.xlsx" -> "sheet"
      [] filepath = "dated.xlsx" -> "unserializable"
      [] OTHER -> "unreadable"
Records(filepath) == IF filepath = "metrics.xlsx" THEN 2 ELSE 0

RECURSIVE ArgLists(_)
ArgLists(n) ==
    IF n = 0 THEN {<<>>}
    ELSE ArgLists(n - 1) \cup
         {Append(a, f) : a \in {b \in ArgLists(n - 1) : Len(b) = n - 1}, f \in Paths}

InitHelper ==
    /\ pc = "main"
    /\ IdleCleanup
    /\ IdleTransform
    /\ IdleUpload
    /\ IdleRun
    /\ IdleDirect
    /\ IdleDedup
    /\ IdleTester
    /\ IdleSql
    /\ argv \in ArgLists(MaxArgs)
    /\ stdout = <<>>
    /\ stderr = <<>>
    /\ exit_code = -1

\* "if len(sys.argv) != 2:" the usage line goes to stderr, sys.exit(1)
Usage ==
    /\ pc = "main"
    /\ Len(argv) + 1 # 2
    /\ stderr' = Append(stderr, "Usage: python upload-helper.py <excel_file>")
    /\ exit_code' = 1
    /\ pc' = "exited"
    /\ UNCHANGED <<early_vars, dedup_vars, tester_vars, sql_vars, argv, stdout>>

\* process_excel_file(sys.argv[1]): the records are printed as JSON and
\* True is returned; or read_excel or json.dumps raises, the error goes to
\* stderr and False is returned
ProcessExcelFile ==
    /\ pc = "main"
    /\ Len(argv) + 1 = 2
    /\ IF FileKind(argv[1]) = "sheet"
       THEN /\ stdout' = Append(stdout, [records |-> Records(argv[1])])
            /\ pc' = "returned True"
            /\ UNCHANGED stderr
       ELSE /\ stderr' = Append(stderr, "Error processing file")
            /\ pc' = "returned False"
            /\ UNCHANGED stdout
    /\ UNCHANGED <<early_vars, dedup_vars, tester_vars, sql_vars, argv, exit_code>>

\* A script that ends with status 0 whatever process_excel_file returned.
ExitStatusZero(result) == 0

\* "if not process_excel_file(filepath): sys.exit(1)"; otherwise the script
\* runs off its end, status 0
ExitStatus(result) == IF result = "returned False" THEN 1 ELSE 0

Exit ==
    /\ pc \in {"returned True", "returned False"}
    /\ exit_code' = ExitStatus(pc)
    /\ pc' = "exited"
    /\ UNCHANGED <<early_vars, dedup_vars, tester_vars, sql_vars, argv, stdout, stderr>>

NextHelper ==
    \/ Usage
    \/ ProcessExcelFile
    \/ Exit

SpecHelper == InitHelper /\ [][NextHelper]_vars

(***************************************************************************)
(* upload-test-data.py: generate_sql_inserts.  The script is run twice on  *)
(* the same sheets, each run in a process of its own.  hash() of a string  *)
(* is keyed by a seed drawn when the interpreter starts, so each process   *)
(* has its own hash function on the strings it hashes.                     *)
(***************************************************************************)
\* The sheets: hostnames of servers and metrics, (hostname, title) of alerts.
ServerSheets == { <<>>, << "web-01" >>, << "web-01", "db-01" >> }
MetricSheets == { <<>>, << "web-01" >> }
AlertSheets == { <<>>, << [hostname |-> "web-01", title |-> "High CPU"] >> }

\* f'{row.hostname}-{row.title}'
AlertKey(alert) == alert.hostname \o "-" \o alert.title

\* The strings a run hashes.
Hashed ==
    {servers_df[k] : k \in 1..Len(servers_df)}
    \cup {metrics_df[k] : k \in 1..Len(metrics_df)}
    \cup {alerts_df[k].hostname : k \in 1..Len(alerts_df)}
    \cup {AlertKey(alerts_df[k]) : k \in 1..Len(alerts_df)}

\* Values hash() may take; two of them agree modulo 1000.
HashValues == {-993, 7, 8}

\* f"srv-{hash(row['hostname']) % 1000:03d}"
ServerId(hostname) == [prefix |-> "srv-", n |-> str_hash[hostname] % 1000]

\* f"alert-{hash(f'{row.hostname}-{row.title}') % 10000:04d}"
AlertId(alert) == [prefix |-> "alert-", n |-> str_hash[AlertKey(alert)] % 10000]
NoId == [prefix |-> "", n |-> 0]

\* metrics_df.head(100)
HeadRows(sheet) == SubSeq(sheet, 1, IF Len(sheet) < 100 THEN Len(sheet) ELSE 100)

InitSql ==
    /\ pc = "python"
    /\ IdleCleanup
    /\ IdleTransform
    /\ IdleUpload
    /\ IdleRun
    /\ IdleDirect
    /\ IdleDedup
    /\ IdleTester
    /\ IdleHelper
    /\ servers_df \in ServerSheets
    /\ metrics_df \in MetricSheets
    /\ alerts_df \in AlertSheets
    /\ str_hash = <<>>
    /\ sql_file = <<>>
    /\ first_sql_file = <<>>
    /\ runs = 0

\* The interpreter starts: the hash seed is drawn
StartPython ==
    /\ pc = "python"
    /\ runs < 2
    /\ \E h \in [Hashed -> HashValues] : str_hash' = h
    /\ pc' = "generate_sql_inserts"
    /\ UNCHANGED <<early_vars, dedup_vars, tester_vars, helper_vars, servers_df, metrics_df,
                   alerts_df, sql_file, first_sql_file, runs>>

\* open('test_data_inserts.sql', 'w') and the loop over servers_df
InsertServers ==
    /\ pc = "generate_sql_inserts"
    /\ sql_file' = [k \in 1..Len(servers_df) |->
                       [table |-> "servers", id |-> ServerId(servers_df[k]),
                        server_id |-> NoId]]
    /\ pc' = "insert_metrics"
    /\ UNCHANGED <<early_vars, dedup_vars, tester_vars, helper_vars, servers_df, metrics_df,
                   alerts_df, str_hash, first_sql_file, runs>>

\* The loop over metrics_df.head(100)
InsertMetrics ==
    /\ pc = "insert_metrics"
    /\ sql_file' = sql_file \o
                   [k \in 1..Len(HeadRows(metrics_df)) |->
                       [table |-> "server_metrics", id |-> NoId,
                        server_id |-> ServerId(HeadRows(metrics_df)[k])]]
    /\ pc' = "insert_alerts"
    /\ UNCHANGED <<early_vars, dedup_vars, tester_vars, helper_vars, servers_df, metrics_df,
                   alerts_df, str_hash, first_sql_file, runs>>

\* The loop over alerts_df; sql_file.close(); the process ends
InsertAlerts ==
    /\ pc = "insert_alerts"
    /\ LET written == sql_file \o
                      [k \in 1..Len(alerts_df) |->
                          [table |-> "alerts", id |-> AlertId(alerts_df[k]),
                           server_id |-> ServerId(alerts_df[k].hostname)]]
       IN /\ sql_file' = written
          /\ first_sql_file' = IF runs = 0 THEN written ELSE first_sql_file
    /\ runs' = runs + 1
    /\ pc' = "python"
    /\ UNCHANGED <<early_vars, dedup_vars, tester_vars, helper_vars, servers_df, metrics_df,
                   alerts_df, str_hash>>

NextSql ==
    \/ StartPython
    \/ InsertServers
    \/ InsertMetrics
    \/ InsertAlerts

SpecSql == InitSql /\ [][NextSql]_vars

(***************************************************************************)
(* The duplicate checks on alerts: load_excel_data and                     *)
(* test_alert_deduplication of test-comprehensive.py, and                  *)
(* validate_data_quality of upload-test-data.py, each applied to the same  *)
(* list of alerts.                                                         *)
(***************************************************************************)
MaxAlerts == 2

Alerts ==
    [hostname : {"web-01"}, title : {"High CPU", "CPU spike"},
     metricType : {"cpu", "memory"}, severity : {"warning", "critical"}]

RECURSIVE AlertLists(_)
AlertLists(n) ==
    IF n = 0 THEN {<<>>}
    ELSE AlertLists(n - 1) \cup
         {Append(a, x) : a \in {b \in AlertLists(n - 1) : Len(b) = n - 1}, x \in Alerts}

\* subset=['hostname', 'title', 'metricType'] of load_excel_data
LoadKey(alert) == <<alert.hostname, alert.title, alert.metricType>>

\* f"{alert.get('hostname', '')}-{alert.get('metricType', '')}-{alert.get('severity', '')}"
alert_key(alert) == alert.hostname \o "-" \o alert.metricType \o "-" \o alert.severity

\* subset=['hostname', 'title', 'severity'] of validate_data_quality
ContentKey(alert) == <<alert.hostname, alert.title, alert.severity>>

\* df.duplicated(subset=...).sum(), and the seen_alerts loop alike: the
\* rows whose key an earlier row has, given the keys of the rows in order
Duplicated(keys) ==
    Cardinality({k \in 1..Len(keys) : \E j \in 1..(k - 1) : keys[j] = keys[k]})

InitDedup ==
    /\ pc = "alerts"
    /\ IdleCleanup
    /\ IdleTransform
    /\ IdleUpload
    /\ IdleRun
    /\ IdleDirect
    /\ IdleTester
    /\ IdleHelper
    /\ IdleSql
    /\ alerts \in AlertLists(MaxAlerts)
    /\ load_duplicates = -1
    /\ seen_duplicates = -1
    /\ content_duplicates = -1

\* load_excel_data: duplicates = df.duplicated(subset=[...]).sum()
AlertDuplicatesCheck ==
    /\ pc = "alerts"
    /\ load_duplicates = -1
    /\ load_duplicates' = Duplicated([k \in 1..Len(alerts) |-> LoadKey(alerts[k])])
    /\ UNCHANGED <<pc, early_vars, tester_vars, helper_vars, sql_vars, alerts,
                   seen_duplicates, content_duplicates>>

\* test_alert_deduplication: the loop over the alerts fetched
AlertDeduplication ==
    /\ pc = "alerts"
    /\ seen_duplicates = -1
    /\ seen_duplicates' = Duplicated([k \in 1..Len(alerts) |-> alert_key(alerts[k])])
    /\ UNCHANGED <<pc, early_vars, tester_vars, helper_vars, sql_vars, alerts,
                   load_duplicates, content_duplicates>>

\* validate_data_quality: alert_content_dups = alerts.duplicated(subset=[...]).sum()
AlertContentDuplicates ==
    /\ pc = "alerts"
    /\ content_duplicates = -1
    /\ content_duplicates' = Duplicated([k \in 1..Len(alerts) |-> ContentKey(alerts[k])])
    /\ UNCHANGED <<pc, early_vars, tester_vars, helper_vars, sql_vars, alerts,
                   load_duplicates, seen_duplicates>>

NextDedup ==
    \/ AlertDuplicatesCheck
    \/ AlertDeduplication
    \/ AlertContentDuplicates

SpecDedup == InitDedup /\ [][NextDedup]_vars

(***************************************************************************)
(* Claims about cleanup-data.py, checked under SpecCleanup.                *)
(***************************************************************************)

\* The POSTs to /api/execute-sql among the requests sent, in order.
SqlSent == SelectSeq(http, LAMBDA r : r.path = "/api/execute-sql")
StatusSent == SelectSeq(http, LAMBDA r : r.path = "/api/system/api-status")
Got200(r) == r.outcome = Response(200)
NumGot200 == Cardinality({k \in 1..Len(SqlSent) : Got200(SqlSent[k])})
CleanupReturned == success # "none"

\* Y, y, yes in any mix of cases, spelled out character by character.
IsYes(s) ==
    \/ Len(s) = 1 /\ s[1] \in {"y", "Y"}
    \/ Len(s) = 3 /\ s[1] \in {"y", "Y"} /\ s[2] \in {"e", "E"} /\ s[3] \in {"s", "S"}

\* C1: cleanup_data returns True, with the success report, if and only if
\* each of the 9 statements was answered 200; a non-200 answer or an
\* exception on any statement ends in the partial branch, returning False.
C1_SuccessIffAllNine200 ==
    CleanupReturned =>
        /\ (success = "True") <=>
              /\ Len(SqlSent) = 9
              /\ \A k \in 1..9 : Got200(SqlSent[k])
        /\ (summary.verdict = "success") <=> (success = "True")
        /\ (\E k \in 1..Len(SqlSent) : ~Got200(SqlSent[k])) =>
              success = "False" /\ summary.verdict = "partial"

C1_Witness ==
    /\ pc = "done"
    /\ success = "False"
    /\ summary.verdict = "partial"
    /\ NumGot200 = 8
    /\ SqlSent[4].outcome = Raised

\* C2: after a successful probe every statement of cleanup_operations is
\* submitted exactly once, in list order, whatever the earlier outcomes; the
\* loop never stops early and nothing else is ever requested.
C2_AllStatementsInOrder ==
    (http # <<>> /\ http[1].outcome = Response(200)) =>
        /\ Len(http) <= 1 + Len(cleanup_operations)
        /\ \A k \in 2..Len(http) :
              /\ http[k].method = "POST"
              /\ http[k].path = "/api/execute-sql"
              /\ http[k].sql = cleanup_operations[k - 1]
        /\ CleanupReturned => Len(http) = 1 + Len(cleanup_operations)

C2_Witness ==
    /\ pc = "done"
    /\ Len(SqlSent) = 9
    /\ SqlSent[1].sql = "server_metrics"
    /\ SqlSent[1].outcome = Raised
    /\ SqlSent[2].outcome = Response(500)
    /\ SqlSent[9].sql = "servers"
    /\ SqlSent[9].outcome = Response(200)

\* C3: the status probe is sent exactly once per cleanup_data call; when it
\* fails (exception or non-200) cleanup_data returns False and no request
\* goes to /api/execute-sql.
C3_FailedProbeAborts ==
    /\ Len(StatusSent) <= 1
    /\ pc \in {"cleanup_loop", "reset_agent_states"} => Len(StatusSent) = 1
    /\ (http # <<>> => http[1].path = "/api/system/api-status")
    /\ (http # <<>> /\ http[1].outcome # Response(200)) =>
          /\ Len(http) = 1
          /\ success = "False"
          /\ pc \in {"reset_agent_states", "done"}

C3_Witness ==
    /\ pc = "done"
    /\ http = <<StatusRequest(Response(500))>>
    /\ success = "False"

\* C4: an answer other than y or yes (in any case) sends no HTTP request at
\* all; requests are only ever sent after an affirmative answer.
C4_NoRequestWithoutYes ==
    /\ (pc # "prompt" /\ ~IsYes(confirmation)) => (http = <<>> /\ success = "none")
    /\ http # <<>> => IsYes(confirmation)

C4_Witness ==
    /\ pc = "done"
    /\ confirmation = <<"y","e","s","s">>
    /\ http = <<>>

\* C5: the summary reports 9 tables processed, as many cleaned as statements
\* were answered 200, and 9 minus that many with issues; exactly one
\* failing table gives 8 cleaned, 1 with issues, verdict partial.
C5_SummaryCounts ==
    summary.verdict # "none" =>
        /\ summary.processed = 9
        /\ summary.cleaned = NumGot200
        /\ summary.issues = 9 - NumGot200
        /\ (NumGot200 = 8) =>
              /\ summary.cleaned = 8
              /\ summary.issues = 1
              /\ summary.verdict = "partial"

C5_Witness ==
    /\ summary.verdict = "partial"
    /\ summary.cleaned = 8
    /\ summary.issues = 1
    /\ SqlSent[7].outcome = Response(500)

(***************************************************************************)
(* Claims about the metric transformation, checked under SpecTransform.    *)
(***************************************************************************)
Transformed == pc \in {"upload_metrics", "upload_metrics_data"}
InRange(x) == x.kind = "num" /\ 0 <= x.val /\ x.val <= 100

\* C6: in every record built by upload_metrics and by upload_metrics_data,
\* cpu_usage, memory_usage and disk_usage lie in [0,100], whatever the
\* source value.
C6_PercentagesClamped ==
    (Transformed /\ ~metric.raised) =>
        /\ InRange(metric.cpu_usage)
        /\ InRange(metric.memory_usage)
        /\ InRange(metric.disk_usage)

C6_Witness ==
    /\ pc = "upload_metrics"
    /\ row.cpu_usage = Num(MaxRaw)
    /\ row.disk_usage = Num(-20)
    /\ ~metric.raised
    /\ metric.cpu_usage = Num(100)
    /\ metric.disk_usage = Num(0)

\* The default each numeric field is documented to take.
Default ==
    [cpu_usage |-> Num(0), memory_usage |-> Num(0), disk_usage |-> Num(50),
     network_latency |-> Num(10), network_throughput |-> Num(100),
     process_count |-> Num(50)]

\* The numeric fields each script reads from the row.
FieldsRead ==
    IF pc = "upload_metrics" THEN NumericFields
    ELSE {"cpu_usage", "memory_usage", "disk_usage"}

\* A row in which nothing but missing values could go wrong: every numeric
\* cell is a number, NaN or absent, and the timestamp is a timestamp.
WellTyped(r) ==
    /\ \A f \in NumericFields : r[f].kind \in {"num", "nan", "absent"}
    /\ r.timestamp.kind = "ts"

\* C7: a row whose numeric field is missing or NaN yields a record, without
\* raising, in which that field holds its default (0, 0, 50, 10, 100, 50).
C7_MissingTakesDefault ==
    (Transformed /\ WellTyped(row)) =>
        /\ ~metric.raised
        /\ \A f \in FieldsRead :
              row[f].kind \in {"nan", "absent"} => metric[f] = Default[f]

(***************************************************************************)
(* Claims about upload_metrics, checked under SpecUpload.                  *)
(***************************************************************************)
\* The current file's processing is over, and the file had been read.
FileEnded ==
    pc \in {"metrics_files", "done"} /\ ended \in {"exhausted", "row_error"}
PostFailed(p) == p.outcome \notin {Response(200), Response(201)}
\* The offsets at which range(0, n, batch_size) starts a batch.
BatchStarts(n) == {b \in 0..(n - 1) : b % batch_size = 0}

\* C8: a batch whose POST is answered with another code than 200/201, or
\* raises, is skipped, and every later batch of the same file and every
\* later file is still submitted: a failed batch never stops the run.
C8_LaterBatchesStillSubmitted ==
    /\ FileEnded =>
          \A j \in 1..Len(posts) :
              PostFailed(posts[j]) =>
                  \A b \in BatchStarts(df.len) :
                      b > posts[j].start =>
                          \E later \in (j + 1)..Len(posts) : posts[later].start = b
    /\ pc = "done" => file_idx = Len(metrics_files) + 1

\* C9: the value upload_metrics returns is the sum of the sizes of exactly
\* the batches whose POST was answered 200 or 201, hence never more than the
\* number of rows read from the files.
C9_ReturnIsAckedRows ==
    /\ total_metrics = acked_before + AckedRows(posts)
    /\ total_metrics <= rows_read
    /\ pc = "done" => returned = acked_before + AckedRows(posts)

C9_Witness ==
    /\ pc = "done"
    /\ acked_before > 0
    /\ returned > acked_before
    /\ returned < rows_read
    /\ \E j \in 1..Len(posts) : posts[j].outcome = Raised
    /\ \E j \in 1..Len(posts) : posts[j].outcome = Response(500)
    /\ \E j \in 1..Len(posts) : posts[j].outcome = Response(201)

\* C10: each file's rows are split into consecutive batches of at most 100
\* rows in input order: the records of a batch are in input order, batches
\* are submitted in increasing row order, one request each, and every row
\* of the file belongs to exactly one batch.
C10_BatchesPartitionRows ==
    /\ \A j \in 1..Len(posts) :
          /\ Len(posts[j].timestamps) \in 1..batch_size
          /\ \A m \in 1..Len(posts[j].timestamps) :
                posts[j].timestamps[m] = posts[j].start + m
          /\ j > 1 => posts[j].start > posts[j - 1].start
    /\ FileEnded =>
          \A k \in 1..df.len :
              Cardinality({j \in 1..Len(posts) :
                  \E m \in 1..Len(posts[j].timestamps) :
                      posts[j].timestamps[m] = k}) = 1

\* Row k of the current file was sent in some POST to /api/metrics.
Submitted(k) ==
    \E j \in 1..Len(posts) :
        \E m \in 1..Len(posts[j].timestamps) : posts[j].timestamps[m] = k

\* C11: a row whose processing raises is the only row skipped: once the
\* file's processing is over, every other row of the file, before and
\* after it, has been submitted.
C11_OnlyRaisingRowSkipped ==
    FileEnded => \A k \in 1..df.len : k # df.bad => Submitted(k)

(***************************************************************************)
(* Claims about the two run_comprehensive_test, checked under SpecRun.     *)
(***************************************************************************)
\* The wait that precedes the verification: 30 seconds in
\* upload-clean-data.py, 60 in direct-data-upload.py.
FixedWait == IF script = "direct-data-upload" THEN 60 ELSE 30
Waited == \E k \in 1..Len(slept) : slept[k] = FixedWait

\* C12: in both scripts the wait and the verification requests happen only
\* if the metric upload reported at least one uploaded record; after an
\* upload of zero records no verification endpoint is requested.
C12_VerificationOnlyAfterUpload ==
    /\ Waited => metrics_count > 0
    /\ verified # <<>> => metrics_count > 0
    /\ (pc = "finished" /\ metrics_count = 0) => (verified = <<>> /\ ~Waited)

C12_Witness ==
    /\ pc = "finished"
    /\ script = "upload-clean-data"
    /\ servers_count > 0
    /\ metrics_count = 0
    /\ verified = <<>>
    /\ slept = <<10>>

\* C13: in upload-clean-data.py, while no POST to /api/servers has been
\* acknowledged with 200 or 201, neither the metrics upload nor the agent
\* verification is executed.
C13_NothingWithoutAckedServer ==
    (script = "upload-clean-data" /\ ~server_acked) =>
        /\ pc \notin {"metrics_files", "batches", "done", "test_all_agents"}
        /\ metrics_count = -1
        /\ verified = <<>>

\* The paths each script's verification is documented to request.
ExpectedAgentPaths ==
    { "/api/agents/telemetry-collector-001/details",
      "/api/agents/anomaly-detector-001/details",
      "/api/agents/predictive-analytics-001/details",
      "/api/agents/recommendation-engine-001/details",
      "/api/agents/approval-compliance-001/details",
      "/api/agents/remediation-executor-001/details",
      "/api/agents/audit-reporting-001/details" }
ExpectedOutputPaths ==
    { "/api/servers", "/api/alerts", "/api/anomalies", "/api/predictions",
      "/api/remediation-actions", "/api/audit-logs" }
    \cup (IF script = "direct-data-upload" THEN {"/api/dashboard/metrics"} ELSE {})
Requested == {verified[k] : k \in 1..Len(verified)}

\* C16: no verification request is made before the fixed wait; after it
\* every listed output endpoint and every agent detail endpoint is
\* requested exactly once in the run, whatever the requests come to.
C16_EachEndpointOnceAfterWait ==
    /\ verified # <<>> => Waited
    /\ \A j, k \in 1..Len(verified) : j # k => verified[j] # verified[k]
    /\ Requested \subseteq (ExpectedAgentPaths \cup ExpectedOutputPaths)
    /\ (pc = "finished" /\ Waited) =>
          Requested = ExpectedAgentPaths \cup ExpectedOutputPaths

C16_Witness ==
    /\ pc = "finished"
    /\ script = "direct-data-upload"
    /\ slept = <<60>>
    /\ Len(verified) = 14
    /\ verified[1] = "/api/servers"
    /\ verified[14] = "/api/agents/audit-reporting-001/details"
    /\ response = "exception"

\* upload_metrics_data has returned.
DataReturned ==
    script = "direct-data-upload" /\ (pc = "returned" \/ metrics_count # -1)

\* C17: whenever upload_metrics_data has returned, also by the early return
\* taken when no server is found, the connection has been closed; and at
\* most one connection is open at any time.
C17_ConnectionClosedOnReturn ==
    /\ open_connections <= 1
    /\ DataReturned => (conn = "closed" /\ open_connections = 0)

\* The insert loop of upload_metrics_data is running, or has just ended.
InLoop == script = "direct-data-upload" /\ pc = "rows"
LoopEnded ==
    script = "direct-data-upload" /\ pc = "returned" /\ server_ids > 0

\* For each sheet, the rows whose handling raises (a table, built once).
Raising ==
    [sheet \in DirectSheets |->
        {k \in 1..sheet.len : DirectMetric(DirectRow(sheet, k), k - 1).raised}]
    @@ << >>

\* How many of the first n rows of the sheet are inserted without raising.
Insertable(n) == n - Cardinality({k \in Raising[df] : k <= n})

Min(a, b) == IF a <= b THEN a ELSE b

\* C23: throughout the insert loop inserted_count counts exactly the rows
\* handled so far that did not raise, and is at most min(500, rows read);
\* the server chosen for row i is position i mod len(server_ids) of the
\* non-empty list of server ids; a commit is issued each time
\* inserted_count reaches a multiple of 50, and once more after the loop.
C23_InsertLoop ==
    (InLoop \/ LoopEnded) =>
        /\ i <= Min(record_limit, df.len)
        /\ inserted_count = Insertable(i)
        /\ inserted_count <= Min(record_limit, df.len)
        /\ server_ids >= 1
        /\ i > 0 => /\ server_id = (i - 1) % server_ids
                    /\ server_id \in 0..(server_ids - 1)
        /\ InLoop => /\ commits = inserted_count \div commit_interval
                     /\ uncommitted = inserted_count % commit_interval
        /\ LoopEnded => /\ commits = inserted_count \div commit_interval + 1
                        /\ uncommitted = 0
                        /\ returned = inserted_count

C23_Witness ==
    /\ LoopEnded
    /\ df.len > record_limit
    /\ df.bad = 1
    /\ i = record_limit
    /\ inserted_count = record_limit - 1
    /\ server_ids = server_limit
    /\ server_id = 9
    /\ commits = 10

(***************************************************************************)
(* Claims about PlatformTester, checked under SpecTester.                  *)
(***************************************************************************)
Reported == pc = "reported"
NumWith(status) ==
    Cardinality({n \in DOMAIN test_results : test_results[n] = status})

\* C14: in the report the passed, failed, warning and info counts add up to
\* the number of entries, the success rate is passed / total * 100, and the
\* summary of test_report.json carries the counts that were printed.
C14_ReportCountsAddUp ==
    Reported =>
        /\ report.total = Cardinality(DOMAIN test_results)
        /\ report.passed = NumWith("PASS")
        /\ report.failed = NumWith("FAIL")
        /\ report.warnings = NumWith("WARN")
        /\ report.info = NumWith("INFO")
        /\ report.passed + report.failed + report.warnings + report.info
              = report.total
        /\ report.success_rate.num * report.total
              = report.passed * 100 * report.success_rate.den
        /\ \A f \in {"total", "passed", "failed", "warnings", "info"} :
              printed[f] = report[f]

C14_Witness ==
    /\ Reported
    /\ report.passed > 0
    /\ report.failed > 0
    /\ report.warnings > 0
    /\ report.info > 0
    /\ printed.total = report.total

\* The names log_test was called with, and the status of the last call
\* made with a name.
LoggedNames == {logged[k].test_name : k \in 1..Len(logged)}
LastLogged(n) ==
    logged[CHOOSE k \in 1..Len(logged) :
              /\ logged[k].test_name = n
              /\ \A j \in (k + 1)..Len(logged) : logged[j].test_name # n].status

\* C15: test_results holds one entry per distinct test name, with the
\* status of the last log_test call made with that name; a call with a
\* name already present changes neither the number of entries nor the
\* other entries; the report's total is the number of distinct names.
C15_LastWriteWins ==
    /\ DOMAIN test_results = LoggedNames
    /\ \A n \in LoggedNames : test_results[n] = LastLogged(n)
    /\ Reported => report.total = Cardinality(LoggedNames)

C15_Witness ==
    /\ Reported
    /\ "alerts" \in loaded_data
    /\ Len(logged) = report.total + 1
    /\ logged[3] = Call("Load alerts", "PASS")
    /\ logged[4] = Call("Load alerts", "FAIL")
    /\ test_results["Load alerts"] = "FAIL"

\* load_excel_data is past file k of its list.
Attempted(k) == pc # "load_excel_data" \/ item > k
Posted(name) == \E j \in 1..Len(uploaded) : uploaded[j] = name

\* C20: every file is attempted whatever became of the files before it; a
\* file that could not be loaded has the entry 'Load <name>' with status
\* FAIL; and the servers (the metrics) are posted, and the upload logged,
\* only if that file was loaded.
C20_LoadFailureSkipsUpload ==
    /\ \A k \in 1..Len(files) :
          Attempted(k) =>
              /\ ("Load " \o files[k]) \in DOMAIN test_results
              /\ files[k] \notin loaded_data =>
                    test_results["Load " \o files[k]] = "FAIL"
    /\ \A j \in 1..Len(uploaded) : uploaded[j] \in loaded_data
    /\ "Upload Servers" \in DOMAIN test_results =>
          ("servers" \in loaded_data /\ Posted("servers"))
    /\ "Upload Metrics" \in DOMAIN test_results =>
          ("metrics" \in loaded_data /\ Posted("metrics"))

C20_Witness ==
    /\ Reported
    /\ "servers" \notin loaded_data
    /\ test_results["Load servers"] = "FAIL"
    /\ {"metrics", "alerts", "remediations", "audit_logs"} \subseteq loaded_data
    /\ uploaded = << "metrics" >>
    /\ "Upload Servers" \notin DOMAIN test_results
    /\ test_results["Upload Metrics"] = "PASS"

\* C22: whenever generate_report runs, test_results is not empty: it holds
\* an entry 'Load <name>', PASS or FAIL, for each of the five datasets,
\* whatever failed before; so the division by the number of entries is
\* defined and the report is written.
C22_ReportNeverEmpty ==
    /\ pc \in {"generate_report", "reported"} =>
          /\ Cardinality(DOMAIN test_results) >= 5
          /\ \A name \in {"servers", "metrics", "alerts", "remediations",
                          "audit_logs"} :
                /\ ("Load " \o name) \in DOMAIN test_results
                /\ test_results["Load " \o name] \in {"PASS", "FAIL"}
    /\ pc # "crashed"

C22_Witness ==
    /\ pc = "reported"
    /\ loaded_data = {}
    /\ \A k \in 1..Len(files) : test_results["Load " \o files[k]] = "FAIL"
    /\ report.total > 5
    /\ report.failed >= 5

(***************************************************************************)
(* Claims about upload-helper.py, checked under SpecHelper.                *)
(***************************************************************************)
\* The files process_excel_file cannot turn into JSON.
Unprocessable == {"dated.xlsx", "notes.txt", "missing.xlsx"}
Failure == Len(argv) # 1 \/ argv[1] \in Unprocessable

\* C19: the script exits with status 1 when it is not given exactly one
\* argument or when process_excel_file fails, and with 0 otherwise; on
\* failure nothing is printed to standard output.
C19_ExitStatus ==
    pc = "exited" =>
        /\ exit_code = (IF Failure THEN 1 ELSE 0)
        /\ Failure => stdout = <<>>
        /\ ~Failure => (stdout # <<>> /\ stderr = <<>>)

C19_Witness ==
    /\ pc = "exited"
    /\ argv = << "dated.xlsx" >>
    /\ exit_code = 1
    /\ stdout = <<>>
    /\ stderr # <<>>

(***************************************************************************)
(* Claims about generate_sql_inserts, checked under SpecSql.               *)
(***************************************************************************)
\* C18: the server and alert identifiers derived from a hostname (and from
\* hostname and title) are stable across runs: a second run on the same
\* sheets writes the identifiers the first run wrote.
C18_IdentifiersStable ==
    runs = 2 => sql_file = first_sql_file

(***************************************************************************)
(* Claims about the duplicate checks on alerts, checked under SpecDedup.   *)
(***************************************************************************)
\* No two of the alerts share hostname, title and metric type.
UniqueAlerts ==
    \A j, k \in 1..Len(alerts) :
        (/\ alerts[j].hostname = alerts[k].hostname
         /\ alerts[j].title = alerts[k].title
         /\ alerts[j].metricType = alerts[k].metricType) => j = k

\* C21: every duplicate check judges uniqueness on (hostname, title, metric
\* type): test_alert_deduplication finds no duplicate (and logs PASS)
\* exactly when no two alerts share that key, in agreement with the check
\* made at load time, and so does validate_data_quality.
C21_OneUniquenessKey ==
    /\ load_duplicates # -1 => (load_duplicates = 0 <=> UniqueAlerts)
    /\ seen_duplicates # -1 => (seen_duplicates = 0 <=> UniqueAlerts)
    /\ content_duplicates # -1 => (content_duplicates = 0 <=> UniqueAlerts)

====
